---- MODULE Spec2Model ----
(***************************************************************************)
(* Room session core of the collaborative IDE.                             *)
(*                                                                         *)
(* Server: backend/index.js as listed in README.md (the io.on connection   *)
(* closure: rooms, roomData, currentRoom, currentUser and the socket       *)
(* handlers).  Client: frontend/src/App.jsx.                               *)
(*                                                                         *)
(* Socket.IO is modelled by what the handlers use of it: a socket's set of *)
(* joined rooms (socket.join / socket.leave), the three emit forms         *)
(* (io.to(r).emit, socket.to(r).emit, socket.emit) and one FIFO channel    *)
(* per connection and direction.  A falsy JavaScript value is represented  *)
(* by the empty string "" (an absent payload field behaves the same in     *)
(* every test the handlers make) and by Null for the initial null.         *)
(*                                                                         *)
(* Spec drives the server handlers with events of arbitrary Socket.IO       *)
(* clients; toClient then records, per connection, everything emitted to   *)
(* it.  SpecApp runs the React client of App.jsx on both channels: its     *)
(* user actions queue events in toServer, the server processes them in    *)
(* order, and the client applies the events it takes off toClient.         *)
(*                                                                         *)
(* SpecGateway adds the two gateways: compileCode and getAIReview post a   *)
(* call to an external service (execCalls, reviewCalls) and their handlers *)
(* resume, in any order, when the call succeeds or fails; it also sends    *)
(* events that lack their payload object.                                  *)
(*                                                                         *)
(* SpecReview runs the React clients through joins, leaves, review         *)
(* requests and lost connections (appIsRev is the client's isRev flag).    *)
(* SpecLabel applies detectLang to the source texts of ReviewTexts.        *)
(***************************************************************************)
EXTENDS Integers, Sequences, FiniteSets, TLC

\* ---------------------------------------------------------------- values
Conns == {"c1", "c2", "c3"}
RoomIds == {"", "r1", "r2"}
Names == {"", "A", "B"}
Codes == {"", "x"}
Langs == {"cpp", "javascript"}

\* The join payloads explored: every pair of a non-empty room id and a non-empty
\* name, one payload with an empty room id and one with an empty user name.
JoinArgs == ({"r1", "r2"} \X {"A", "B"}) \cup {<<"", "A">>, <<"r1", "">>}

\* The room ids carried by the codeChange and languageChange payloads explored.
EditRoomIds == {"r1", "r2"}

Null == "<null>"
Undefined == "<undefined>"

\* Number of client events the server processes in one explored run of Spec.
MaxEvents == 3

\* App.jsx clients: the connections driven by the React client in SpecApp, the
\* values its user enters, and the number of user actions in one explored run.
AppConns == {"c1", "c2"}
AppRoomIds == {"r1", "r2"}
\* The display name the user of connection c enters.
AppNameOf(c) == IF c = "c1" THEN "A" ELSE "B"
MaxUserActions == 4

\* useState("// start coding here...") and leaveRoom's setCode("//start coding here...")
InitialCode == "// start coding here..."
ResetCode == "//start coding here..."
DefaultLanguage == "cpp"

VARIABLES
    rooms,        \* Map roomId -> Set of userNames (insertion ordered)
    roomData,     \* Map roomId -> {code, language}
    currentRoom,  \* per connection closure variable
    currentUser,  \* per connection closure variable
    socketRooms,  \* per connection: the Socket.IO rooms the socket has joined
    connected,    \* per connection: the socket is live
    toClient,     \* per connection: events emitted to it, in emission order
    last,         \* the client event processed by the latest server step
    nEvents,      \* number of client events processed so far
    toServer,     \* per connection: events the client emitted, not yet processed
    appJoined,    \* App.jsx state: joined
    appRoomId,    \* App.jsx state: roomId
    appUserName,  \* App.jsx state: userName
    appLanguage,  \* App.jsx state: language
    appCode,      \* App.jsx state: code
    appUsers,     \* App.jsx state: users
    appIsRev,     \* App.jsx state: isRev
    nActions,     \* number of user actions taken so far
    execCalls,    \* requests posted to the code executor, awaiting their outcome
    reviewCalls,  \* prompts sent to the generative model, awaiting their outcome
    serverUp      \* the Node process is running

appVars == <<appJoined, appRoomId, appUserName, appLanguage, appCode, appUsers,
             appIsRev>>
gatewayVars == <<execCalls, reviewCalls, serverUp>>
vars == <<rooms, roomData, currentRoom, currentUser, socketRooms, connected,
          toClient, last, nEvents, toServer, appVars, nActions, gatewayVars>>

\* ------------------------------------------------------- JavaScript helpers
\* Truthiness of the values the handlers test (strings, null, undefined).
Truthy(v) == v # "" /\ v # Null /\ v # Undefined

RECURSIVE SeqRemove(_, _)
SeqRemove(s, x) ==
    IF s = <<>> THEN <<>>
    ELSE IF Head(s) = x THEN Tail(s)
    ELSE <<Head(s)>> \o SeqRemove(Tail(s), x)

SeqHas(s, x) == \E i \in 1..Len(s) : s[i] = x

\* Set.prototype.add: appended in insertion order unless already present.
SetAdd(s, x) == IF SeqHas(s, x) THEN s ELSE Append(s, x)

\* Set.prototype.delete
SetDelete(s, x) == SeqRemove(s, x)

\* Array.from(set): the elements in insertion order.
ArrayFrom(s) == s

\* ------------------------------------------------------------ server events
UserJoinedMsg(users) == [type |-> "userJoined", users |-> users, text |-> ""]
CodeUpdateMsg(code) == [type |-> "codeUpdate", users |-> <<>>, text |-> code]
LanguageUpdateMsg(lang) == [type |-> "languageUpdate", users |-> <<>>, text |-> lang]
UserTypingMsg(user) == [type |-> "userTyping", users |-> <<>>, text |-> user]

\* The sockets in Socket.IO room r, given every socket's joined rooms.
InRoom(sr, r) == {c \in Conns : r \in sr[c]}

\* Appends msg to the channel of every connection in targets.
Emit(chan, targets, msg) ==
    [c \in Conns |-> IF c \in targets THEN Append(chan[c], msg) ELSE chan[c]]

\* io.to(r).emit
IoToEmit(chan, sr, r, msg) == Emit(chan, InRoom(sr, r), msg)

\* socket.to(r).emit: every socket in r except the emitting one
SocketToEmit(chan, sr, c, r, msg) == Emit(chan, InRoom(sr, r) \ {c}, msg)

\* socket.emit
SocketEmit(chan, c, msg) == Emit(chan, {c}, msg)

\* rooms.set(r, new Set()) when the room is not in the registry
RoomsEnsure(rs, r) ==
    IF r \in DOMAIN rs THEN rs
    ELSE [q \in DOMAIN rs \cup {r} |-> IF q = r THEN <<>> ELSE rs[q]]

\* if (!roomData.has(r)) roomData.set(r, {})
RoomDataEnsure(rd, r) ==
    IF r \in DOMAIN rd THEN rd
    ELSE [q \in DOMAIN rd \cup {r} |->
            IF q = r THEN [code |-> Undefined, language |-> Undefined] ELSE rd[q]]

Event(kind, c, r, arg) == [kind |-> kind, conn |-> c, room |-> r, arg |-> arg]

\* ---------------------------------------------------------------- handlers
\* Variant of Join that announces the new member with socket.to, so that the
\* joining socket itself is left out.
Join_NotToSelf(c, roomId, userName) ==
    LET old == currentRoom[c]
        wasIn == Truthy(old)
        sr1 == IF wasIn THEN [socketRooms EXCEPT ![c] = @ \ {old}] ELSE socketRooms
        rs1 == IF wasIn THEN [rooms EXCEPT ![old] = SetDelete(@, currentUser[c])]
               ELSE rooms
        ch1 == IF wasIn THEN IoToEmit(toClient, sr1, old, UserJoinedMsg(ArrayFrom(rs1[old])))
               ELSE toClient
        sr2 == [sr1 EXCEPT ![c] = @ \cup {roomId}]
        rs2 == RoomsEnsure(rs1, roomId)
        rs3 == [rs2 EXCEPT ![roomId] = SetAdd(@, userName)]
        ch2 == SocketToEmit(ch1, sr2, c, roomId, UserJoinedMsg(ArrayFrom(rs3[roomId])))
        hasInfo == roomId \in DOMAIN roomData
        ch3 == IF hasInfo /\ Truthy(roomData[roomId].code)
               THEN SocketEmit(ch2, c, CodeUpdateMsg(roomData[roomId].code))
               ELSE ch2
        ch4 == IF hasInfo /\ Truthy(roomData[roomId].language)
               THEN SocketEmit(ch3, c, LanguageUpdateMsg(roomData[roomId].language))
               ELSE ch3
    IN  /\ connected[c]
        /\ wasIn => old \in DOMAIN rooms
        /\ currentRoom' = [currentRoom EXCEPT ![c] = roomId]
        /\ currentUser' = [currentUser EXCEPT ![c] = userName]
        /\ socketRooms' = sr2
        /\ rooms' = rs3
        /\ toClient' = ch4
        /\ UNCHANGED <<roomData, connected>>

\* socket.on("join", ({ roomId, userName }) => ...)
Join(c, roomId, userName) ==
    LET old == currentRoom[c]
        wasIn == Truthy(old)
        sr1 == IF wasIn THEN [socketRooms EXCEPT ![c] = @ \ {old}] ELSE socketRooms
        rs1 == IF wasIn THEN [rooms EXCEPT ![old] = SetDelete(@, currentUser[c])]
               ELSE rooms
        ch1 == IF wasIn THEN IoToEmit(toClient, sr1, old, UserJoinedMsg(ArrayFrom(rs1[old])))
               ELSE toClient
        sr2 == [sr1 EXCEPT ![c] = @ \cup {roomId}]
        rs2 == RoomsEnsure(rs1, roomId)
        rs3 == [rs2 EXCEPT ![roomId] = SetAdd(@, userName)]
        ch2 == IoToEmit(ch1, sr2, roomId, UserJoinedMsg(ArrayFrom(rs3[roomId])))
        hasInfo == roomId \in DOMAIN roomData
        ch3 == IF hasInfo /\ Truthy(roomData[roomId].code)
               THEN SocketEmit(ch2, c, CodeUpdateMsg(roomData[roomId].code))
               ELSE ch2
        ch4 == IF hasInfo /\ Truthy(roomData[roomId].language)
               THEN SocketEmit(ch3, c, LanguageUpdateMsg(roomData[roomId].language))
               ELSE ch3
    IN  /\ connected[c]
        /\ wasIn => old \in DOMAIN rooms
        /\ currentRoom' = [currentRoom EXCEPT ![c] = roomId]
        /\ currentUser' = [currentUser EXCEPT ![c] = userName]
        /\ socketRooms' = sr2
        /\ rooms' = rs3
        /\ toClient' = ch4
        /\ UNCHANGED <<roomData, connected>>

\* Variant of CodeChange that broadcasts with io.to, echoing to the sender.
CodeChange_Echo(c, roomId, code) ==
    /\ connected[c]
    /\ toClient' = IoToEmit(toClient, socketRooms, roomId, CodeUpdateMsg(code))
    /\ roomData' = [RoomDataEnsure(roomData, roomId) EXCEPT ![roomId].code = code]
    /\ UNCHANGED <<rooms, currentRoom, currentUser, socketRooms, connected>>

\* Variant of CodeChange that acts only for the room the socket is bound to.
CodeChange_BoundOnly(c, roomId, code) ==
    /\ connected[c]
    /\ IF currentRoom[c] = roomId
       THEN /\ toClient' = SocketToEmit(toClient, socketRooms, c, roomId, CodeUpdateMsg(code))
            /\ roomData' = [RoomDataEnsure(roomData, roomId) EXCEPT ![roomId].code = code]
       ELSE UNCHANGED <<toClient, roomData>>
    /\ UNCHANGED <<rooms, currentRoom, currentUser, socketRooms, connected>>

\* socket.on("codeChange", ({ roomId, code }) => ...)
CodeChange(c, roomId, code) ==
    /\ connected[c]
    /\ toClient' = SocketToEmit(toClient, socketRooms, c, roomId, CodeUpdateMsg(code))
    /\ roomData' = [RoomDataEnsure(roomData, roomId) EXCEPT ![roomId].code = code]
    /\ UNCHANGED <<rooms, currentRoom, currentUser, socketRooms, connected>>

\* Variant of LeaveRoom that answers an unbound socket with an empty member list.
LeaveRoom_AckUnbound(c) ==
    /\ connected[c]
    /\ IF Truthy(currentRoom[c]) /\ Truthy(currentUser[c])
       THEN LET r == currentRoom[c]
                rs1 == [rooms EXCEPT ![r] = SetDelete(@, currentUser[c])]
            IN  /\ r \in DOMAIN rooms
                /\ rooms' = rs1
                /\ toClient' = IoToEmit(toClient, socketRooms, r, UserJoinedMsg(ArrayFrom(rs1[r])))
                /\ socketRooms' = [socketRooms EXCEPT ![c] = @ \ {r}]
                /\ currentRoom' = [currentRoom EXCEPT ![c] = Null]
                /\ currentUser' = [currentUser EXCEPT ![c] = Null]
       ELSE /\ toClient' = SocketEmit(toClient, c, UserJoinedMsg(<<>>))
            /\ UNCHANGED <<rooms, socketRooms, currentRoom, currentUser>>
    /\ UNCHANGED <<roomData, connected>>

\* socket.on("leaveRoom", () => ...)
LeaveRoom(c) ==
    /\ connected[c]
    /\ IF Truthy(currentRoom[c]) /\ Truthy(currentUser[c])
       THEN LET r == currentRoom[c]
                rs1 == [rooms EXCEPT ![r] = SetDelete(@, currentUser[c])]
            IN  /\ r \in DOMAIN rooms
                /\ rooms' = rs1
                /\ toClient' = IoToEmit(toClient, socketRooms, r, UserJoinedMsg(ArrayFrom(rs1[r])))
                /\ socketRooms' = [socketRooms EXCEPT ![c] = @ \ {r}]
                /\ currentRoom' = [currentRoom EXCEPT ![c] = Null]
                /\ currentUser' = [currentUser EXCEPT ![c] = Null]
       ELSE UNCHANGED <<rooms, toClient, socketRooms, currentRoom, currentUser>>
    /\ UNCHANGED <<roomData, connected>>

\* Variant of LanguageChange that broadcasts with socket.to, leaving out the sender.
LanguageChange_NotToSender(c, roomId, language) ==
    /\ connected[c]
    /\ toClient' = SocketToEmit(toClient, socketRooms, c, roomId, LanguageUpdateMsg(language))
    /\ roomData' = [RoomDataEnsure(roomData, roomId) EXCEPT ![roomId].language = language]
    /\ UNCHANGED <<rooms, currentRoom, currentUser, socketRooms, connected>>

\* socket.on("languageChange", ({ roomId, language }) => ...)
LanguageChange(c, roomId, language) ==
    /\ connected[c]
    /\ toClient' = IoToEmit(toClient, socketRooms, roomId, LanguageUpdateMsg(language))
    /\ roomData' = [RoomDataEnsure(roomData, roomId) EXCEPT ![roomId].language = language]
    /\ UNCHANGED <<rooms, currentRoom, currentUser, socketRooms, connected>>

\* socket.on("typing", (roomId, userName) => ...)
Typing(c, roomId, userName) ==
    /\ connected[c]
    /\ toClient' = SocketToEmit(toClient, socketRooms, c, roomId, UserTypingMsg(userName))
    /\ UNCHANGED <<rooms, roomData, currentRoom, currentUser, socketRooms, connected>>

\* Variant of Disconnect that deletes a room from the registry when its last
\* member goes.
Disconnect_DropsEmptyRoom(c) ==
    LET sr1 == [socketRooms EXCEPT ![c] = {}]
    IN  /\ connected[c]
        /\ connected' = [connected EXCEPT ![c] = FALSE]
        /\ socketRooms' = sr1
        /\ IF Truthy(currentRoom[c]) /\ Truthy(currentUser[c])
           THEN LET r == currentRoom[c]
                    rs1 == [rooms EXCEPT ![r] = SetDelete(@, currentUser[c])]
                IN  /\ r \in DOMAIN rooms
                    /\ rooms' = IF rs1[r] = <<>>
                                THEN [q \in DOMAIN rs1 \ {r} |-> rs1[q]]
                                ELSE rs1
                    /\ toClient' = IoToEmit(toClient, sr1, r, UserJoinedMsg(ArrayFrom(rs1[r])))
           ELSE UNCHANGED <<rooms, toClient>>
        /\ UNCHANGED <<roomData, currentRoom, currentUser>>

\* Variant of Disconnect that removes the member without telling the room.
Disconnect_Silent(c) ==
    LET sr1 == [socketRooms EXCEPT ![c] = {}]
    IN  /\ connected[c]
        /\ connected' = [connected EXCEPT ![c] = FALSE]
        /\ socketRooms' = sr1
        /\ IF Truthy(currentRoom[c]) /\ Truthy(currentUser[c])
           THEN LET r == currentRoom[c]
                IN  /\ r \in DOMAIN rooms
                    /\ rooms' = [rooms EXCEPT ![r] = SetDelete(@, currentUser[c])]
           ELSE UNCHANGED rooms
        /\ UNCHANGED <<roomData, currentRoom, currentUser, toClient>>

\* socket.on("disconnect", () => ...).  Socket.IO has removed the socket from
\* all its rooms before the handler runs, and the socket receives nothing more.
Disconnect(c) ==
    LET sr1 == [socketRooms EXCEPT ![c] = {}]
    IN  /\ connected[c]
        /\ connected' = [connected EXCEPT ![c] = FALSE]
        /\ socketRooms' = sr1
        /\ IF Truthy(currentRoom[c]) /\ Truthy(currentUser[c])
           THEN LET r == currentRoom[c]
                    rs1 == [rooms EXCEPT ![r] = SetDelete(@, currentUser[c])]
                IN  /\ r \in DOMAIN rooms
                    /\ rooms' = rs1
                    /\ toClient' = IoToEmit(toClient, sr1, r, UserJoinedMsg(ArrayFrom(rs1[r])))
           ELSE UNCHANGED <<rooms, toClient>>
        /\ UNCHANGED <<roomData, currentRoom, currentUser>>

\* ------------------------------------------------------------ specification
Init ==
    /\ rooms = [r \in {} |-> <<>>]
    /\ roomData = [r \in {} |-> [code |-> Undefined, language |-> Undefined]]
    /\ currentRoom = [c \in Conns |-> Null]
    /\ currentUser = [c \in Conns |-> Null]
    /\ socketRooms = [c \in Conns |-> {}]
    /\ connected = [c \in Conns |-> TRUE]
    /\ toClient = [c \in Conns |-> <<>>]
    /\ last = Event("init", "none", "", "")
    /\ nEvents = 0
    /\ toServer = [c \in Conns |-> <<>>]
    /\ appJoined = [c \in Conns |-> FALSE]
    /\ appRoomId = [c \in Conns |-> ""]
    /\ appUserName = [c \in Conns |-> ""]
    /\ appLanguage = [c \in Conns |-> DefaultLanguage]
    /\ appCode = [c \in Conns |-> InitialCode]
    /\ appUsers = [c \in Conns |-> <<>>]
    /\ appIsRev = [c \in Conns |-> FALSE]
    /\ nActions = 0
    /\ execCalls = <<>>
    /\ reviewCalls = <<>>
    /\ serverUp = TRUE

\* In Spec the clients are arbitrary Socket.IO clients: the server processes
\* any event from any live connection, and toClient records what it emitted.
Step(kind, c, r, arg) ==
    /\ nEvents < MaxEvents
    /\ nEvents' = nEvents + 1
    /\ last' = Event(kind, c, r, arg)
    /\ UNCHANGED <<toServer, appVars, nActions, gatewayVars>>

OnJoin ==
    \E c \in Conns, ru \in JoinArgs :
        Step("join", c, ru[1], ru[2]) /\ Join(c, ru[1], ru[2])

OnCodeChange ==
    \E c \in Conns, r \in EditRoomIds, code \in Codes :
        Step("codeChange", c, r, code) /\ CodeChange(c, r, code)

OnLeaveRoom ==
    \E c \in Conns : Step("leaveRoom", c, "", "") /\ LeaveRoom(c)

OnLanguageChange ==
    \E c \in Conns, r \in EditRoomIds, l \in Langs :
        Step("languageChange", c, r, l) /\ LanguageChange(c, r, l)

OnDisconnect ==
    \E c \in Conns : Step("disconnect", c, "", "") /\ Disconnect(c)

OnTyping ==
    \E c \in Conns, r \in EditRoomIds :
        Step("typing", c, r, AppNameOf(c)) /\ Typing(c, r, AppNameOf(c))

Next ==
    \/ OnJoin
    \/ OnCodeChange
    \/ OnLeaveRoom
    \/ OnLanguageChange
    \/ OnDisconnect
    \/ OnTyping

Spec == Init /\ [][Next]_vars

\* ------------------------------------------------------ App.jsx client
\* socket.emit(kind, payload) on the client: queued for the server in order.
ClientEmit(chan, c, e) == [chan EXCEPT ![c] = Append(@, e)]

UserAction ==
    /\ nActions < MaxUserActions
    /\ nActions' = nActions + 1

serverSide == <<rooms, roomData, currentRoom, currentUser, socketRooms, connected,
                toClient, last, nEvents, gatewayVars>>

\* The user fills in the join form (setRoomId, setUserName) and clicks
\* "Join Room": JoinRoom()
JoinRoom(c, r, u) ==
    /\ ~appJoined[c]
    /\ appRoomId' = [appRoomId EXCEPT ![c] = r]
    /\ appUserName' = [appUserName EXCEPT ![c] = u]
    /\ IF Truthy(r) /\ Truthy(u)
       THEN /\ toServer' = ClientEmit(toServer, c, Event("join", c, r, u))
            /\ appJoined' = [appJoined EXCEPT ![c] = TRUE]
       ELSE UNCHANGED <<toServer, appJoined>>
    /\ UNCHANGED <<appLanguage, appCode, appUsers, appIsRev>>

\* const leaveRoom = () => ...  (the "Leave Room" button of the editor screen)
AppLeaveRoom(c) ==
    /\ appJoined[c]
    /\ toServer' = ClientEmit(toServer, c, Event("leaveRoom", c, "", ""))
    /\ appJoined' = [appJoined EXCEPT ![c] = FALSE]
    /\ appRoomId' = [appRoomId EXCEPT ![c] = ""]
    /\ appUserName' = [appUserName EXCEPT ![c] = ""]
    /\ appCode' = [appCode EXCEPT ![c] = ResetCode]
    /\ appLanguage' = [appLanguage EXCEPT ![c] = DefaultLanguage]
    /\ UNCHANGED <<appUsers, appIsRev>>

\* const handleCodeChange = (newCode) => ...  (the editor's onChange)
HandleCodeChange(c, newCode) ==
    /\ appJoined[c]
    /\ appCode' = [appCode EXCEPT ![c] = newCode]
    /\ toServer' = ClientEmit(ClientEmit(toServer, c,
                        Event("codeChange", c, appRoomId[c], newCode)), c,
                        Event("typing", c, appRoomId[c], appUserName[c]))
    /\ UNCHANGED <<appJoined, appRoomId, appUserName, appLanguage, appUsers, appIsRev>>

\* const handleLanguageChange = (e) => ...  (the language selector's onChange)
HandleLanguageChange(c, newLanguage) ==
    /\ appJoined[c]
    /\ appLanguage' = [appLanguage EXCEPT ![c] = newLanguage]
    /\ toServer' = ClientEmit(toServer, c,
                        Event("languageChange", c, appRoomId[c], newLanguage))
    /\ UNCHANGED <<appJoined, appRoomId, appUserName, appCode, appUsers, appIsRev>>

\* socket.on("userJoined", (users) => setUsers(users))
OnUserJoined(c, m) ==
    /\ appUsers' = [appUsers EXCEPT ![c] = m.users]
    /\ UNCHANGED <<appJoined, appRoomId, appUserName, appLanguage, appCode, appIsRev>>

\* socket.on("codeUpdate", (newCode) => setCode(newCode))
OnCodeUpdate(c, m) ==
    /\ appCode' = [appCode EXCEPT ![c] = m.text]
    /\ UNCHANGED <<appJoined, appRoomId, appUserName, appLanguage, appUsers, appIsRev>>

\* socket.on("languageUpdate", (newLanguage) => setLanguage(newLanguage))
OnLanguageUpdate(c, m) ==
    /\ appLanguage' = [appLanguage EXCEPT ![c] = m.text]
    /\ UNCHANGED <<appJoined, appRoomId, appUserName, appCode, appUsers, appIsRev>>

\* socket.on("userTyping", ...): sets the typing indicator, which is not modelled.
OnUserTyping(c, m) == UNCHANGED appVars

\* ------------------------------------------------- specification SpecApp
\* The React clients of AppConns act through the two FIFO channels of their
\* sockets; the server processes one queued event at a time.
UserJoinRoom ==
    \E c \in AppConns, r \in AppRoomIds :
        UserAction /\ JoinRoom(c, r, AppNameOf(c)) /\ UNCHANGED serverSide

UserLeaveRoom ==
    \E c \in AppConns : UserAction /\ AppLeaveRoom(c) /\ UNCHANGED serverSide

UserEditsCode ==
    \E c \in AppConns, code \in Codes :
        UserAction /\ HandleCodeChange(c, code) /\ UNCHANGED serverSide

UserSelectsLanguage ==
    \E c \in AppConns, l \in Langs :
        UserAction /\ HandleLanguageChange(c, l) /\ UNCHANGED serverSide

\* The server takes the next event of connection c off its socket.
Dequeue(c, kind) ==
    /\ toServer[c] # <<>>
    /\ Head(toServer[c]).kind = kind
    /\ toServer' = [toServer EXCEPT ![c] = Tail(@)]
    /\ last' = Head(toServer[c])
    /\ nEvents' = nEvents + 1
    /\ UNCHANGED <<appVars, nActions, gatewayVars>>

ServerJoin ==
    \E c \in AppConns :
        Dequeue(c, "join") /\ Join(c, Head(toServer[c]).room, Head(toServer[c]).arg)

ServerLeaveRoom ==
    \E c \in AppConns : Dequeue(c, "leaveRoom") /\ LeaveRoom(c)

ServerCodeChange ==
    \E c \in AppConns :
        Dequeue(c, "codeChange")
        /\ CodeChange(c, Head(toServer[c]).room, Head(toServer[c]).arg)

ServerTyping ==
    \E c \in AppConns :
        Dequeue(c, "typing") /\ Typing(c, Head(toServer[c]).room, Head(toServer[c]).arg)

ServerLanguageChange ==
    \E c \in AppConns :
        Dequeue(c, "languageChange")
        /\ LanguageChange(c, Head(toServer[c]).room, Head(toServer[c]).arg)

\* The client of connection c receives the next event emitted to it.
Receive(c, type) ==
    /\ connected[c]
    /\ toClient[c] # <<>>
    /\ Head(toClient[c]).type = type
    /\ toClient' = [toClient EXCEPT ![c] = Tail(@)]
    /\ UNCHANGED <<rooms, roomData, currentRoom, currentUser, socketRooms, connected,
                   last, nEvents, toServer, nActions, gatewayVars>>

ClientUserJoined ==
    \E c \in AppConns : Receive(c, "userJoined") /\ OnUserJoined(c, Head(toClient[c]))

ClientCodeUpdate ==
    \E c \in AppConns : Receive(c, "codeUpdate") /\ OnCodeUpdate(c, Head(toClient[c]))

ClientLanguageUpdate ==
    \E c \in AppConns :
        Receive(c, "languageUpdate") /\ OnLanguageUpdate(c, Head(toClient[c]))

ClientUserTyping ==
    \E c \in AppConns : Receive(c, "userTyping") /\ OnUserTyping(c, Head(toClient[c]))

NextApp ==
    \/ UserJoinRoom
    \/ UserLeaveRoom
    \/ UserEditsCode
    \/ UserSelectsLanguage
    \/ ServerJoin
    \/ ServerLeaveRoom
    \/ ServerCodeChange
    \/ ServerTyping
    \/ ServerLanguageChange
    \/ ClientUserJoined
    \/ ClientCodeUpdate
    \/ ClientLanguageUpdate
    \/ ClientUserTyping

SpecApp == Init /\ [][NextApp]_vars

\* ------------------------------------------- execution and review gateways
\* const defaultVersions = { cpp: ..., python3: ..., javascript: ..., java: ... }
defaultVersions ==
    [cpp |-> "10.2.0", python3 |-> "3.10.0", javascript |-> "18.15.0", java |-> "15.0.2"]

\* defaultVersions[language]: undefined for a key the table does not have.
DefaultVersionOf(language) ==
    IF language \in DOMAIN defaultVersions THEN defaultVersions[language] ELSE Undefined

\* let actualLang = language; if (language === 'cpp') ...; if (language === 'python3') ...
actualLang(language) ==
    IF language = "cpp" THEN "c++"
    ELSE IF language = "python3" THEN "python"
    ELSE language

\* const actualVersion = (version === "*") ? defaultVersions[language] : version
actualVersion(language, version) ==
    IF version = "*" THEN DefaultVersionOf(language) ELSE version

\* stdin: stdin || ""
StdinOrEmpty(stdin) == IF Truthy(stdin) THEN stdin ELSE ""

CodeResponseMsg(output) == [type |-> "codeResponse", users |-> <<>>, text |-> output]
AIReviewMsg(text) == [type |-> "AIReview", users |-> <<>>, text |-> text]

FallbackReview == "Unable to review currently please try later"

\* The failures of the executor call explored: error.response?.data?.message
\* (Undefined when the request got no response) and error.message.
ExecErrors ==
    {[response |-> Undefined, message |-> "Network Error"],
     [response |-> "cpp-9.4.0 runtime is unknown",
      message |-> "Request failed with status code 400"]}

\* The template literal `Error: ${m}`, for the messages of ExecErrors.
ErrorTemplate(m) ==
    CASE m = "Network Error" -> "Error: Network Error"
      [] m = "cpp-9.4.0 runtime is unknown" -> "Error: cpp-9.4.0 runtime is unknown"
      [] m = "Request failed with status code 400"
            -> "Error: Request failed with status code 400"

\* `Error: ${error.response?.data?.message || error.message}`
ErrorOutput(error) ==
    ErrorTemplate(IF Truthy(error.response) THEN error.response ELSE error.message)

\* The run.output values of the executor's successful responses explored.
ExecOutputs == {"42\n"}

\* The patterns of detectLang that occur in a source text (String.includes),
\* listed for the texts explored.
Fragments(code) ==
    CASE code = "#include <cstdio>" -> {"#include"}
      [] code = "def f(): pass" -> {"def "}
      [] code = "print(1)" -> {"print("}
      [] code = "function f() {}" -> {"function"}
      [] code = "console.log(1)" -> {"console."}
      [] code = "public class A {}" -> {"public class"}
      [] code = "System.out.println(1);" -> {"System.out"}
      [] code = "System.out.print(1);" -> {"print(", "System.out"}
      [] code = "#include <x> // def f" -> {"#include", "def "}
      [] code = "def function(): pass" -> {"def ", "function"}
      [] code = "print(console.x)" -> {"print(", "console."}
      [] code = "function f() { System.out.flush(); }" -> {"function", "System.out"}
      [] code = "public class A { void f() { console.log(1); } }" -> {"console.", "public class"}
      [] code = "#include <x> public class A {}" -> {"#include", "public class"}
      [] code = "// #include function System.out print(" -> {"#include", "print(", "function", "System.out"}
      [] OTHER -> {}

\* The source texts sent for review in SpecLabel: no pattern, each language's
\* patterns alone, and texts that hold patterns of several languages.
ReviewTexts ==
    {"",
     "x = 1",
     "#include <cstdio>",
     "def f(): pass",
     "print(1)",
     "function f() {}",
     "console.log(1)",
     "public class A {}",
     "System.out.println(1);",
     "System.out.print(1);",
     "#include <x> // def f",
     "def function(): pass",
     "print(console.x)",
     "function f() { System.out.flush(); }",
     "public class A { void f() { console.log(1); } }",
     "#include <x> public class A {}",
     "// #include function System.out print("}

\* Variant of detectLang that tests the languages in the opposite order.
detectLang_JavaFirst(code) ==
    IF "public class" \in Fragments(code) \/ "System.out" \in Fragments(code) THEN "Java"
    ELSE IF "function" \in Fragments(code) \/ "console." \in Fragments(code) THEN "JavaScript"
    ELSE IF "def " \in Fragments(code) \/ "print(" \in Fragments(code) THEN "Python"
    ELSE IF "#include" \in Fragments(code) THEN "C++"
    ELSE "code"

\* function detectLang(code)
detectLang(code) ==
    IF "#include" \in Fragments(code) THEN "C++"
    ELSE IF "def " \in Fragments(code) \/ "print(" \in Fragments(code) THEN "Python"
    ELSE IF "function" \in Fragments(code) \/ "console." \in Fragments(code) THEN "JavaScript"
    ELSE IF "public class" \in Fragments(code) \/ "System.out" \in Fragments(code) THEN "Java"
    ELSE "code"

\* const prompt = `Review the following ${detectLang(code)} code ... ${code}`
Prompt(code) == [lang |-> detectLang(code), code |-> code]

\* The text the generative model answers to a prompt when it succeeds.
GeneratedText(prompt) ==
    CASE prompt.code = "" -> "review of an empty file"
      [] prompt.code = "x" -> "review of x"
      [] OTHER -> "review"

RemoveAt(s, i) == SubSeq(s, 1, i - 1) \o SubSeq(s, i + 1, Len(s))

sessionVars == <<rooms, roomData, currentRoom, currentUser, socketRooms, connected>>

\* Variant of CompileCode that posts to the executor without looking up the room.
CompileCode_AnyRoom(c, p) ==
    /\ connected[c]
    /\ execCalls' = Append(execCalls,
           [conn |-> c, language |-> actualLang(p.language),
            version |-> actualVersion(p.language, p.version),
            content |-> p.code, stdin |-> StdinOrEmpty(p.stdin)])
    /\ UNCHANGED <<sessionVars, toClient, reviewCalls, serverUp>>

\* Variant of CompileCode that resolves the default version from the mapped
\* language name.
CompileCode_MappedKey(c, p) ==
    /\ connected[c]
    /\ IF p.roomId \in DOMAIN rooms
       THEN execCalls' = Append(execCalls,
                [conn |-> c, language |-> actualLang(p.language),
                 version |-> actualVersion(actualLang(p.language), p.version),
                 content |-> p.code, stdin |-> StdinOrEmpty(p.stdin)])
       ELSE UNCHANGED execCalls
    /\ UNCHANGED <<sessionVars, toClient, reviewCalls, serverUp>>

\* socket.on("compileCode", async ({ code, roomId, language, version, stdin }) => ...)
\* up to the await: the request posted to the executor.
CompileCode(c, p) ==
    /\ connected[c]
    /\ IF p.roomId \in DOMAIN rooms
       THEN execCalls' = Append(execCalls,
                [conn |-> c, language |-> actualLang(p.language),
                 version |-> actualVersion(p.language, p.version),
                 content |-> p.code, stdin |-> StdinOrEmpty(p.stdin)])
       ELSE UNCHANGED execCalls
    /\ UNCHANGED <<sessionVars, toClient, reviewCalls, serverUp>>

\* Variant of ExecResolves that answers the whole session of the requester.
ExecResolves_ToAll(i, output) ==
    /\ execCalls' = RemoveAt(execCalls, i)
    /\ toClient' = Emit(toClient, {d \in Conns : connected[d]}, CodeResponseMsg(output))
    /\ UNCHANGED <<sessionVars, reviewCalls, serverUp>>

\* The await of compileCode resumes with a response:
\* socket.emit("codeResponse", response.data).  A socket that has disconnected
\* receives nothing.
ExecResolves(i, output) ==
    /\ execCalls' = RemoveAt(execCalls, i)
    /\ toClient' = IF connected[execCalls[i].conn]
                   THEN SocketEmit(toClient, execCalls[i].conn, CodeResponseMsg(output))
                   ELSE toClient
    /\ UNCHANGED <<sessionVars, reviewCalls, serverUp>>

\* Variant of ExecRejects without the catch: the rejection leaves the handler.
ExecRejects_Uncaught(i, error) ==
    /\ execCalls' = RemoveAt(execCalls, i)
    /\ serverUp' = FALSE
    /\ UNCHANGED <<sessionVars, toClient, reviewCalls>>

\* The await of compileCode throws: the catch block of the handler.
ExecRejects(i, error) ==
    /\ execCalls' = RemoveAt(execCalls, i)
    /\ toClient' = IF connected[execCalls[i].conn]
                   THEN SocketEmit(toClient, execCalls[i].conn,
                                   CodeResponseMsg(ErrorOutput(error)))
                   ELSE toClient
    /\ UNCHANGED <<sessionVars, reviewCalls, serverUp>>

\* socket.on("getAIReview", async ({ roomId, code }) => ...) up to the await.
\* detectLang(code) throws inside the try when the payload has no code, and the
\* catch block broadcasts the fallback at once.
GetAIReview(c, p) ==
    /\ connected[c]
    /\ IF p.code = Undefined
       THEN /\ toClient' = IoToEmit(toClient, socketRooms, p.roomId, AIReviewMsg(FallbackReview))
            /\ UNCHANGED reviewCalls
       ELSE /\ reviewCalls' = Append(reviewCalls, [room |-> p.roomId, prompt |-> Prompt(p.code)])
            /\ UNCHANGED toClient
    /\ UNCHANGED <<sessionVars, execCalls, serverUp>>

\* Variant of ReviewResolves whose review is of the code stored for the room
\* when the call completes.
ReviewResolves_StoredCode(i) ==
    LET r == reviewCalls[i].room
        code == IF r \in DOMAIN roomData /\ roomData[r].code # Undefined
                THEN roomData[r].code ELSE reviewCalls[i].prompt.code
    IN  /\ reviewCalls' = RemoveAt(reviewCalls, i)
        /\ toClient' = IoToEmit(toClient, socketRooms, r,
                                AIReviewMsg(GeneratedText(Prompt(code))))
        /\ UNCHANGED <<sessionVars, execCalls, serverUp>>

\* The await of getAIReview resumes with the model's answer:
\* io.to(roomId).emit("AIReview", text)
ReviewResolves(i) ==
    /\ reviewCalls' = RemoveAt(reviewCalls, i)
    /\ toClient' = IoToEmit(toClient, socketRooms, reviewCalls[i].room,
                            AIReviewMsg(GeneratedText(reviewCalls[i].prompt)))
    /\ UNCHANGED <<sessionVars, execCalls, serverUp>>

\* Variant of ReviewRejects that swallows the failure without telling the room.
ReviewRejects_Silent(i) ==
    /\ reviewCalls' = RemoveAt(reviewCalls, i)
    /\ UNCHANGED <<sessionVars, toClient, execCalls, serverUp>>

\* The await of getAIReview throws: the catch block of the handler.
ReviewRejects(i) ==
    /\ reviewCalls' = RemoveAt(reviewCalls, i)
    /\ toClient' = IoToEmit(toClient, socketRooms, reviewCalls[i].room,
                            AIReviewMsg(FallbackReview))
    /\ UNCHANGED <<sessionVars, execCalls, serverUp>>

\* The handlers that destructure their payload in the parameter list, and
\* those of them that are async functions.
PayloadKinds == {"join", "codeChange", "languageChange", "compileCode", "getAIReview"}
AsyncKinds == {"compileCode", "getAIReview"}

\* An event of one of PayloadKinds sent without a payload: destructuring
\* undefined throws a TypeError before the handler body.  Thrown by a plain
\* handler it is an uncaught exception, which ends the process; thrown by an
\* async handler it is an unhandled rejection, which ends the process or is
\* only reported, depending on the Node version and flags.
NoPayload(c, kind) ==
    /\ connected[c]
    /\ IF kind \in AsyncKinds THEN serverUp' \in BOOLEAN ELSE serverUp' = FALSE
    /\ UNCHANGED <<sessionVars, toClient, execCalls, reviewCalls>>

\* ------------------------------------------------ specification SpecGateway
\* The connections join one room; the gateways take requests for it and for a
\* room nobody joins.  last.arg holds the payload of a compileCode, the code of
\* a getAIReview, and the outcome of a completed call.
GatewayConns == Conns
GatewayRoom == "r1"

\* The compileCode payloads explored.
CompilePayloads ==
    {[roomId |-> "r1", code |-> "x", language |-> l, version |-> "*", stdin |-> Undefined] :
        l \in {"cpp", "python3", "javascript", "java", "go"}}
    \cup {[roomId |-> "r1", code |-> "x", language |-> "cpp", version |-> "9.4.0",
           stdin |-> "1 2"],
          [roomId |-> "r1", code |-> "x", language |-> "go", version |-> "1.16.2",
           stdin |-> "1 2"],
          [roomId |-> "r2", code |-> "x", language |-> "cpp", version |-> "*",
           stdin |-> Undefined]}

\* The getAIReview payloads explored.
ReviewPayloads ==
    {[roomId |-> "r1", code |-> "x"], [roomId |-> "r1", code |-> Undefined]}

\* The server processes a client event while the process is up.
GStep(kind, c, r, arg) ==
    /\ serverUp
    /\ nEvents < MaxEvents
    /\ nEvents' = nEvents + 1
    /\ last' = Event(kind, c, r, arg)
    /\ UNCHANGED <<toServer, appVars, nActions>>

\* A pending external call completes: the handler resumes after its await.
Resume(kind, c, r, arg) ==
    /\ serverUp
    /\ nEvents' = nEvents + 1
    /\ last' = Event(kind, c, r, arg)
    /\ UNCHANGED <<toServer, appVars, nActions>>

GJoin ==
    \E c \in GatewayConns :
        /\ GStep("join", c, GatewayRoom, AppNameOf(c))
        /\ Join(c, GatewayRoom, AppNameOf(c))
        /\ UNCHANGED gatewayVars

GLeaveRoom ==
    \E c \in GatewayConns :
        GStep("leaveRoom", c, "", "") /\ LeaveRoom(c) /\ UNCHANGED gatewayVars

GDisconnect ==
    \E c \in GatewayConns :
        GStep("disconnect", c, "", "") /\ Disconnect(c) /\ UNCHANGED gatewayVars

GCodeChange ==
    \E c \in GatewayConns, code \in Codes :
        /\ GStep("codeChange", c, GatewayRoom, code)
        /\ CodeChange(c, GatewayRoom, code)
        /\ UNCHANGED gatewayVars

GCompileCode ==
    \E c \in GatewayConns, p \in CompilePayloads :
        GStep("compileCode", c, p.roomId, p) /\ CompileCode(c, p)

GExecResolves ==
    \E i \in 1..Len(execCalls), output \in ExecOutputs :
        Resume("execResolved", execCalls[i].conn, "", output) /\ ExecResolves(i, output)

GExecRejects ==
    \E i \in 1..Len(execCalls), error \in ExecErrors :
        /\ Resume("execRejected", execCalls[i].conn, "", error)
        /\ ExecRejects(i, error)

GGetAIReview ==
    \E c \in GatewayConns, p \in ReviewPayloads :
        GStep("getAIReview", c, p.roomId, p.code) /\ GetAIReview(c, p)

GReviewResolves ==
    \E i \in 1..Len(reviewCalls) :
        /\ Resume("reviewResolved", "none", reviewCalls[i].room, reviewCalls[i].prompt.code)
        /\ ReviewResolves(i)

GReviewRejects ==
    \E i \in 1..Len(reviewCalls) :
        /\ Resume("reviewRejected", "none", reviewCalls[i].room, reviewCalls[i].prompt.code)
        /\ ReviewRejects(i)

GNoPayload ==
    \E c \in GatewayConns, kind \in PayloadKinds :
        GStep(kind, c, Undefined, Undefined) /\ NoPayload(c, kind)

NextGateway ==
    \/ GJoin
    \/ GLeaveRoom
    \/ GDisconnect
    \/ GCodeChange
    \/ GCompileCode
    \/ GExecResolves
    \/ GExecRejects
    \/ GGetAIReview
    \/ GReviewResolves
    \/ GReviewRejects
    \/ GNoPayload

SpecGateway == Init /\ [][NextGateway]_vars

\* ------------------------------------------------- specification SpecReview
\* The React clients join and leave rooms and request reviews; a connection
\* may be lost.  The typing indicator, the output pane and the review modal
\* (isModalOpen, modalMessage) are not modelled.

\* const AIreview = () => ...  (the "AI Review" button, disabled while isRev)
AIreview(c) ==
    /\ appJoined[c]
    /\ ~appIsRev[c]
    /\ appIsRev' = [appIsRev EXCEPT ![c] = TRUE]
    /\ toServer' = ClientEmit(toServer, c,
                        Event("getAIReview", c, appRoomId[c], appCode[c]))
    /\ UNCHANGED <<appJoined, appRoomId, appUserName, appLanguage, appCode, appUsers>>

\* socket.on("AIReview", (message) => ...): setIsRev(false)
OnAIReview(c, m) ==
    /\ appIsRev' = [appIsRev EXCEPT ![c] = FALSE]
    /\ UNCHANGED <<appJoined, appRoomId, appUserName, appLanguage, appCode, appUsers>>

RUserJoinRoom ==
    \E c \in AppConns, r \in AppRoomIds :
        /\ UserAction
        /\ connected[c]
        /\ JoinRoom(c, r, AppNameOf(c))
        /\ UNCHANGED serverSide

RUserLeaveRoom ==
    \E c \in AppConns :
        UserAction /\ connected[c] /\ AppLeaveRoom(c) /\ UNCHANGED serverSide

RUserRequestsReview ==
    \E c \in AppConns :
        UserAction /\ connected[c] /\ AIreview(c) /\ UNCHANGED serverSide

\* The connection of client c is lost (the tab is closed, the network drops):
\* what the client had emitted and the server has not received is lost, and
\* the server runs the disconnect handler.
RConnectionLost ==
    \E c \in AppConns :
        /\ UserAction
        /\ Disconnect(c)
        /\ toServer' = [toServer EXCEPT ![c] = <<>>]
        /\ last' = Event("disconnect", c, "", "")
        /\ nEvents' = nEvents + 1
        /\ UNCHANGED <<appVars, gatewayVars>>

RServerGetAIReview ==
    \E c \in AppConns :
        /\ toServer[c] # <<>>
        /\ Head(toServer[c]).kind = "getAIReview"
        /\ toServer' = [toServer EXCEPT ![c] = Tail(@)]
        /\ last' = Head(toServer[c])
        /\ nEvents' = nEvents + 1
        /\ GetAIReview(c, [roomId |-> Head(toServer[c]).room, code |-> Head(toServer[c]).arg])
        /\ UNCHANGED <<appVars, nActions>>

ClientAIReview ==
    \E c \in AppConns : Receive(c, "AIReview") /\ OnAIReview(c, Head(toClient[c]))

NextReview ==
    \/ RUserJoinRoom
    \/ RUserLeaveRoom
    \/ RUserRequestsReview
    \/ RConnectionLost
    \/ ServerJoin
    \/ ServerLeaveRoom
    \/ RServerGetAIReview
    \/ GReviewResolves
    \/ GReviewRejects
    \/ ClientUserJoined
    \/ ClientAIReview

SpecReview == Init /\ [][NextReview]_vars

\* -------------------------------------------------- specification SpecLabel
\* detectLang over ReviewTexts: one connection has sent a join of r1, a
\* languageChange of r1 and a getAIReview of one of the texts; the server
\* processes the three events and the model call completes.
InitLabel ==
    \E c0 \in AppConns, text \in ReviewTexts :
        /\ toServer = [c \in Conns |->
               IF c = c0
               THEN <<Event("join", c0, "r1", AppNameOf(c0)),
                      Event("languageChange", c0, "r1", "javascript"),
                      Event("getAIReview", c0, "r1", text)>>
               ELSE <<>>]
        /\ rooms = [r \in {} |-> <<>>]
        /\ roomData = [r \in {} |-> [code |-> Undefined, language |-> Undefined]]
        /\ currentRoom = [c \in Conns |-> Null]
        /\ currentUser = [c \in Conns |-> Null]
        /\ socketRooms = [c \in Conns |-> {}]
        /\ connected = [c \in Conns |-> TRUE]
        /\ toClient = [c \in Conns |-> <<>>]
        /\ last = Event("init", "none", "", "")
        /\ nEvents = 0
        /\ appJoined = [c \in Conns |-> FALSE]
        /\ appRoomId = [c \in Conns |-> ""]
        /\ appUserName = [c \in Conns |-> ""]
        /\ appLanguage = [c \in Conns |-> DefaultLanguage]
        /\ appCode = [c \in Conns |-> InitialCode]
        /\ appUsers = [c \in Conns |-> <<>>]
        /\ appIsRev = [c \in Conns |-> FALSE]
        /\ nActions = 0
        /\ execCalls = <<>>
        /\ reviewCalls = <<>>
        /\ serverUp = TRUE

NextLabel ==
    \/ ServerJoin
    \/ ServerLanguageChange
    \/ RServerGetAIReview
    \/ GReviewResolves
    \/ GReviewRejects

SpecLabel == InitLabel /\ [][NextLabel]_vars

\* ------------------------------------------------------------------ claims
\* The events emitted to connection d by the step being taken.
NewMsgs(d) == SubSeq(toClient'[d], Len(toClient[d]) + 1, Len(toClient'[d]))

InSeq(s, m) == \E i \in 1..Len(s) : s[i] = m

LastMsg(d) == toClient[d][Len(toClient[d])]

\* The step being taken is the server processing a client event of this kind.
Handles(kind) == nEvents' = nEvents + 1 /\ last'.kind = kind

\* C1: every processed codeChange{roomId, code} delivers codeUpdate(code)
\* exactly once to each connection in roomId's broadcast group other than
\* the sender, and delivers nothing to the sender or to anyone else.
C1_CodeChangeToOthersOnce ==
    [][Handles("codeChange") =>
        \A d \in Conns :
            NewMsgs(d) = IF d # last'.conn /\ last'.room \in socketRooms[d]
                         THEN <<CodeUpdateMsg(last'.arg)>>
                         ELSE <<>>]_vars

C1_Witness ==
    /\ last.kind = "codeChange"
    /\ last.room \in socketRooms[last.conn]
    /\ \E d \in Conns \ {last.conn} :
          /\ last.room \in socketRooms[d]
          /\ toClient[d] # <<>>
          /\ LastMsg(d) = CodeUpdateMsg(last.arg)
    /\ \E e \in Conns \ {last.conn} : last.room \notin socketRooms[e]

\* Connection c is live and its binding is (r, u).
BoundTo(c, r, u) == connected[c] /\ currentRoom[c] = r /\ currentUser[c] = u

\* Every emitted event has been processed by the server or applied by its client.
AllQuiet == \A c \in Conns : toServer[c] = <<>> /\ toClient[c] = <<>>

\* C2: once every codeChange has been processed and every codeUpdate has
\* been applied, the local code of every client subscribed to a room equals the
\* code stored for the room.  Stated for a stored code that is not empty.
C2_ClientsConverge ==
    AllQuiet =>
        \A c \in AppConns, r \in RoomIds :
            (r \in socketRooms[c] /\ r \in DOMAIN roomData /\ Truthy(roomData[r].code))
                => appCode[c] = roomData[r].code

\* C3: a name is in a room's membership set if and only if some live
\* connection is bound to that room under that name.  Stated for the non-empty
\* room ids and names, the ones a join may carry by its precondition.
C3_MemberIffBound ==
    \A r \in RoomIds \ {""}, u \in Names \ {""} :
        (r \in DOMAIN rooms /\ SeqHas(rooms[r], u)) <=> (\E c \in Conns : BoundTo(c, r, u))

\* C4: a join to a room with a stored document delivers the stored code and
\* the stored language, whatever their values, to the joining connection, delivers
\* no document event to any other connection, and leaves the document unchanged.
\* Stated for joins that carry a non-empty room id and a non-empty name.
C4_JoinDeliversDocument ==
    [][Handles("join") /\ last'.room # "" /\ last'.arg # ""
            /\ last'.room \in DOMAIN roomData =>
        LET c == last'.conn
            doc == roomData[last'.room]
        IN  /\ doc.code # Undefined => InSeq(NewMsgs(c), CodeUpdateMsg(doc.code))
            /\ doc.language # Undefined => InSeq(NewMsgs(c), LanguageUpdateMsg(doc.language))
            /\ \A d \in Conns \ {c} :
                  \A i \in 1..Len(NewMsgs(d)) : NewMsgs(d)[i].type = "userJoined"
            /\ roomData' = roomData]_vars

\* C5: a processed join(roomId, userName) delivers userJoined to every
\* connection then in roomId's broadcast group, the joining one included, and
\* the payload is the room's membership after userName has been added.
C5_JoinBroadcastsMembership ==
    [][Handles("join") =>
        LET r == last'.room
        IN  /\ r \in DOMAIN rooms'
            /\ SeqHas(rooms'[r], last'.arg)
            /\ last'.conn \in InRoom(socketRooms', r)
            /\ \A d \in InRoom(socketRooms', r) :
                  InSeq(NewMsgs(d), UserJoinedMsg(rooms'[r]))]_vars

C5_Witness ==
    /\ last.kind = "join"
    /\ last.room = "r1"
    /\ rooms["r1"] = <<"A", "B">>
    /\ \E c, d \in Conns :
          /\ c # d
          /\ currentUser[c] = "A" /\ currentUser[d] = "B"
          /\ LastMsg(c) = UserJoinedMsg(<<"A", "B">>)
          /\ LastMsg(d) = UserJoinedMsg(<<"A", "B">>)

\* C6: a disconnect of a connection bound to (r, u) removes u from r's
\* membership and delivers exactly one userJoined, carrying the membership after
\* the removal, to every connection still subscribed to r, and nothing else.
C6_DisconnectCleansUp ==
    [][Handles("disconnect") /\ currentRoom[last'.conn] # Null =>
        LET r == currentRoom[last'.conn]
            u == currentUser[last'.conn]
        IN  /\ r \in DOMAIN rooms'
            /\ ~SeqHas(rooms'[r], u)
            /\ \A d \in Conns :
                  NewMsgs(d) = IF d \in InRoom(socketRooms', r)
                               THEN <<UserJoinedMsg(rooms'[r])>>
                               ELSE <<>>]_vars

\* C7: when a connection's join(r, u) is directly followed by its leaveRoom,
\* u is not in the membership set of r afterwards.
C7_JoinThenLeaveExcludes ==
    [][last.kind = "join" /\ Handles("leaveRoom") /\ last'.conn = last.conn =>
        ~SeqHas(rooms'[last.room], last.arg)]_vars

\* C8: every processed languageChange{roomId, language} delivers
\* languageUpdate(language) to every connection in roomId's broadcast group,
\* the sender included when it is subscribed, and stores language for the room.
C8_LanguageChangeToAll ==
    [][Handles("languageChange") =>
        /\ \A d \in Conns :
              NewMsgs(d) = IF last'.room \in socketRooms[d]
                           THEN <<LanguageUpdateMsg(last'.arg)>>
                           ELSE <<>>
        /\ last'.room \in DOMAIN roomData'
        /\ roomData'[last'.room].language = last'.arg]_vars

C8_Witness ==
    /\ last.kind = "languageChange"
    /\ last.room \in socketRooms[last.conn]
    /\ LastMsg(last.conn) = LanguageUpdateMsg(last.arg)
    /\ \E d \in Conns \ {last.conn} :
          last.room \in socketRooms[d] /\ LastMsg(d) = LanguageUpdateMsg(last.arg)
    /\ roomData[last.room].language = last.arg

\* C9: a join whose roomId or userName is empty is dropped: the registry,
\* the documents, the subscriptions and the binding are unchanged and nothing
\* is emitted.
C9_EmptyJoinDropped ==
    [][Handles("join") /\ (last'.room = "" \/ last'.arg = "") =>
        UNCHANGED <<rooms, roomData, socketRooms, currentRoom, currentUser, toClient>>]_vars

\* C10: every live connection is subscribed to at most one room, and to
\* room r exactly when its currentRoom is r.
C10_OneSubscription ==
    \A c \in Conns :
        connected[c] =>
            /\ Cardinality(socketRooms[c]) <= 1
            /\ \A r \in RoomIds : r \in socketRooms[c] <=> currentRoom[c] = r

\* Connection c has no binding.
Unbound(c) == currentRoom[c] = Null /\ currentUser[c] = Null

\* C17: a join(r2, u2) on a connection bound to (r1, u1) first cleans up the
\* old binding: the connection is unsubscribed from r1, u1 leaves r1's
\* membership, the connections still subscribed to r1 receive first a userJoined
\* with r1's membership without u1 (computed before u2 is added), the joining
\* connection receives only the userJoined of r2, and the binding becomes (r2, u2).
C17_RejoinCleansUpFirst ==
    [][Handles("join") /\ ~Unbound(last'.conn) =>
        LET c == last'.conn
            r1 == currentRoom[c]
            u1 == currentUser[c]
            r2 == last'.room
            u2 == last'.arg
            cleaned == UserJoinedMsg(SetDelete(rooms[r1], u1))
        IN  /\ r1 # r2 => r1 \notin socketRooms'[c]
            /\ <<r1, u1>> # <<r2, u2>> => ~SeqHas(rooms'[r1], u1)
            /\ \A d \in InRoom(socketRooms, r1) \ {c} :
                  NewMsgs(d) # <<>> /\ NewMsgs(d)[1] = cleaned
            /\ Len(SelectSeq(NewMsgs(c), LAMBDA m : m.type = "userJoined")) = 1
            /\ NewMsgs(c)[1] = UserJoinedMsg(rooms'[r2])
            /\ SeqHas(rooms'[r2], u2)
            /\ currentRoom'[c] = r2 /\ currentUser'[c] = u2]_vars

\* C18: a leaveRoom of a connection bound to (r, u), both non-empty, delivers
\* one userJoined, carrying the membership after the removal, to exactly the
\* connections subscribed to r after the leave, so not to the leaving one, and
\* leaves the connection unbound and unsubscribed from r.
C18_LeaveToRemainingOnly ==
    [][Handles("leaveRoom") /\ Truthy(currentRoom[last'.conn])
            /\ Truthy(currentUser[last'.conn]) =>
        LET c == last'.conn
            r == currentRoom[c]
        IN  /\ \A d \in Conns :
                  NewMsgs(d) = IF d \in InRoom(socketRooms', r)
                               THEN <<UserJoinedMsg(rooms'[r])>>
                               ELSE <<>>
            /\ currentRoom'[c] = Null /\ currentUser'[c] = Null
            /\ r \notin socketRooms'[c]]_vars

\* C19: a leaveRoom or a disconnect of an unbound connection changes no
\* membership, no document, no binding and no subscription of a connection
\* that stays, and emits nothing; and when a connection's leaveRoom is directly
\* followed by its disconnect, the disconnect emits nothing more.
C19_UnboundLeaveIsNoOp ==
    [][/\ (Handles("leaveRoom") /\ Unbound(last'.conn)) =>
              UNCHANGED <<rooms, roomData, socketRooms, currentRoom, currentUser, toClient>>
       /\ (Handles("disconnect") /\ Unbound(last'.conn)) =>
              /\ UNCHANGED <<rooms, roomData, currentRoom, currentUser, toClient>>
              /\ \A d \in Conns \ {last'.conn} : socketRooms'[d] = socketRooms[d]
       /\ (last.kind = "leaveRoom" /\ Handles("disconnect") /\ last'.conn = last.conn) =>
              UNCHANGED <<rooms, toClient>>]_vars

\* The connection joined, left (receiving userJoined twice on the way: see
\* C18) and then disconnected unbound.
C19_Witness ==
    /\ last.kind = "disconnect"
    /\ Unbound(last.conn)
    /\ ~connected[last.conn]
    /\ Len(toClient[last.conn]) = 2
    /\ \E r \in DOMAIN rooms : rooms[r] = <<>>

\* The step being taken completes a call to the code executor.
ExecCompletes == Handles("execResolved") \/ Handles("execRejected")

\* The step being taken delivers an event of this type to connection d.
Delivers(d, type) == \E i \in 1..Len(NewMsgs(d)) : NewMsgs(d)[i].type = type

\* The step being taken processes a compileCode that carries a payload.
HandlesCompile == Handles("compileCode") /\ last'.room # Undefined

\* C11 as claimed: a compileCode naming a room without current members, never
\* joined or emptied since, posts nothing to the executor and emits nothing.
C11_EmptyRoomCompileDropped ==
    [][HandlesCompile /\ (last'.room \in DOMAIN rooms => rooms[last'.room] = <<>>) =>
        UNCHANGED <<execCalls, toClient>>]_vars

\* C11 amended: a compileCode naming a room id that no join has ever named
\* posts nothing to the executor and emits nothing; and every codeResponse
\* answers a posted request.
C11_UnknownRoomCompileDropped ==
    [][/\ (HandlesCompile /\ last'.room \notin DOMAIN rooms) =>
              UNCHANGED <<execCalls, toClient>>
       /\ (\E d \in Conns : Delivers(d, "codeResponse")) =>
              ExecCompletes /\ Len(execCalls') = Len(execCalls) - 1]_vars

C11_Witness ==
    /\ last.kind = "compileCode"
    /\ last.room = "r2"
    /\ "r2" \notin DOMAIN rooms
    /\ "r1" \in DOMAIN rooms
    /\ execCalls = <<>>
    /\ \A d \in Conns : \A i \in 1..Len(toClient[d]) : toClient[d][i].type = "userJoined"

\* C12: when the executor call of an accepted compileCode completes, with a
\* response or with a failure, while the requester is connected, the requester
\* receives exactly one codeResponse and no other connection receives anything;
\* an accepted compileCode posts exactly one call, and no other step delivers
\* a codeResponse.
C12_CodeResponseToRequesterOnly ==
    [][/\ ExecCompletes =>
              /\ Len(execCalls') = Len(execCalls) - 1
              /\ \A d \in Conns :
                    NewMsgs(d) =
                        IF d = last'.conn /\ connected[d]
                        THEN <<CodeResponseMsg(IF last'.kind = "execResolved"
                                               THEN last'.arg
                                               ELSE ErrorOutput(last'.arg))>>
                        ELSE <<>>
       /\ (HandlesCompile /\ last'.room \in DOMAIN rooms) =>
              /\ Len(execCalls') = Len(execCalls) + 1
              /\ execCalls'[Len(execCalls')].conn = last'.conn
       /\ ~ExecCompletes => \A d \in Conns : ~Delivers(d, "codeResponse")]_vars

\* The call has completed; the requester got the response and another
\* connection, subscribed to the room of the request, got none.
C12_Witness ==
    /\ last.kind = "execResolved"
    /\ connected[last.conn]
    /\ LastMsg(last.conn) = CodeResponseMsg(last.arg)
    /\ \E d \in Conns \ {last.conn} :
          /\ "r1" \in socketRooms[d]
          /\ \A i \in 1..Len(toClient[d]) : toClient[d][i].type # "codeResponse"

\* C13: a failure of the executor call stops nothing and changes no room,
\* document, binding or subscription: the requester, when connected, receives
\* one codeResponse whose output is "Error: " followed by the message of the
\* executor's response, or by the error's own message when there is no response.
C13_ExecFailureIsAnswered ==
    [][Handles("execRejected") =>
        LET error == last'.arg
            c == last'.conn
        IN  /\ serverUp'
            /\ UNCHANGED sessionVars
            /\ connected[c] =>
                  NewMsgs(c) = <<CodeResponseMsg(
                      IF error.response # Undefined
                      THEN ErrorTemplate(error.response)
                      ELSE ErrorTemplate(error.message))>>]_vars

C13_Witness ==
    /\ last.kind = "execRejected"
    /\ serverUp
    /\ connected[last.conn]
    /\ LastMsg(last.conn) = CodeResponseMsg("Error: Network Error")
    /\ "r1" \in DOMAIN rooms /\ rooms["r1"] # <<>>

\* The step being taken completes a call to the generative model.
ReviewCompletes == Handles("reviewResolved") \/ Handles("reviewRejected")

\* The step being taken processes a getAIReview that carries a payload.
HandlesReview == Handles("getAIReview") /\ last'.room # Undefined

\* Every connection subscribed to room r receives exactly the event m from
\* the step being taken, and no other connection receives anything.
BroadcastOnce(r, m) ==
    \A d \in Conns : NewMsgs(d) = IF r \in socketRooms[d] THEN <<m>> ELSE <<>>

\* C14: a getAIReview{roomId, code} either starts one call to the model and
\* emits nothing yet, or fails at once; the completion of a call, and a request
\* that fails at once, deliver exactly one AIReview to every connection then
\* subscribed to roomId and to nobody else: the generated text when the call
\* succeeds, the fixed fallback string on any failure.  No other step
\* delivers an AIReview.
C14_OneReviewToRoom ==
    [][/\ HandlesReview =>
              \/ /\ Len(reviewCalls') = Len(reviewCalls) + 1
                 /\ reviewCalls'[Len(reviewCalls')].room = last'.room
                 /\ toClient' = toClient
              \/ /\ reviewCalls' = reviewCalls
                 /\ BroadcastOnce(last'.room,
                        AIReviewMsg("Unable to review currently please try later"))
       /\ Handles("reviewResolved") =>
              /\ Len(reviewCalls') = Len(reviewCalls) - 1
              /\ BroadcastOnce(last'.room, AIReviewMsg(GeneratedText(Prompt(last'.arg))))
       /\ Handles("reviewRejected") =>
              /\ Len(reviewCalls') = Len(reviewCalls) - 1
              /\ BroadcastOnce(last'.room,
                     AIReviewMsg("Unable to review currently please try later"))
       /\ ~(HandlesReview \/ ReviewCompletes) =>
              \A d \in Conns : ~Delivers(d, "AIReview")]_vars

\* The model call failed and two subscribed connections, the requester among
\* them, hold the fallback string as their latest event.
C14_Witness ==
    /\ last.kind = "reviewRejected"
    /\ \E c, d \in Conns :
          /\ c # d
          /\ last.room \in socketRooms[c] /\ last.room \in socketRooms[d]
          /\ LastMsg(c) = AIReviewMsg(FallbackReview)
          /\ LastMsg(d) = AIReviewMsg(FallbackReview)
    /\ \E e \in Conns : last.room \notin socketRooms[e] /\ toClient[e] = <<>>

\* C15: the call posted for an accepted compileCode names language "c++" for
\* "cpp", "python" for "python3" and the requested language otherwise; its
\* version is the requested one unless that is "*", and for "*" it is 10.2.0
\* for cpp, 3.10.0 for python3, 18.15.0 for javascript and 15.0.2 for java.
C15_LanguageAndVersionSent ==
    [][HandlesCompile /\ last'.room \in DOMAIN rooms =>
        LET p == last'.arg
            call == execCalls'[Len(execCalls')]
        IN  /\ call.language = CASE p.language = "cpp" -> "c++"
                                 [] p.language = "python3" -> "python"
                                 [] OTHER -> p.language
            /\ p.version # "*" => call.version = p.version
            /\ p.version = "*" =>
                  /\ p.language = "cpp" => call.version = "10.2.0"
                  /\ p.language = "python3" => call.version = "3.10.0"
                  /\ p.language = "javascript" => call.version = "18.15.0"
                  /\ p.language = "java" => call.version = "15.0.2"]_vars

C15_Witness ==
    /\ last.kind = "compileCode"
    /\ last.room = "r1"
    /\ last.arg.language = "cpp" /\ last.arg.version = "*"
    /\ execCalls # <<>>
    /\ execCalls[Len(execCalls)].language = "c++"
    /\ execCalls[Len(execCalls)].version = "10.2.0"

\* C16: an event that arrives without its payload object stops nothing: the
\* server process stays up, and no room, document, binding, subscription or
\* channel changes.
C16_BadEventIsIsolated ==
    [][(nEvents' = nEvents + 1 /\ last'.kind \in PayloadKinds /\ last'.room = Undefined) =>
        /\ serverUp'
        /\ UNCHANGED <<sessionVars, toClient>>]_vars

\* C20: while a review call is in flight the server still accepts a
\* codeChange, languageChange, join or leaveRoom of every live connection, and a
\* codeChange stores its code and leaves the pending prompts as they are.  The prompt of
\* a getAIReview embeds the code of its payload, no step other than its own
\* completion touches a pending call, and the review broadcast at completion
\* is the model's answer to that prompt.
C20_ReviewOfRequestTimeCode ==
    [][/\ (reviewCalls # <<>> /\ Handles("codeChange") /\ last'.room # Undefined) =>
              /\ roomData'[last'.room].code = last'.arg
              /\ reviewCalls' = reviewCalls
       /\ (HandlesReview /\ last'.arg # Undefined) =>
              reviewCalls' = Append(reviewCalls,
                                    [room |-> last'.room,
                                     prompt |-> [lang |-> detectLang(last'.arg),
                                                 code |-> last'.arg]])
       /\ ~ReviewCompletes =>
              SubSeq(reviewCalls', 1, Len(reviewCalls)) = reviewCalls
       /\ (reviewCalls # <<>> /\ serverUp /\ nEvents < MaxEvents) =>
              \A c \in Conns : connected[c] =>
                  /\ ENABLED (GStep("codeChange", c, GatewayRoom, "x")
                              /\ CodeChange(c, GatewayRoom, "x") /\ UNCHANGED gatewayVars)
                  /\ ENABLED (GStep("languageChange", c, GatewayRoom, "cpp")
                              /\ LanguageChange(c, GatewayRoom, "cpp")
                              /\ UNCHANGED gatewayVars)
                  /\ ENABLED (GStep("join", c, GatewayRoom, "A")
                              /\ Join(c, GatewayRoom, "A") /\ UNCHANGED gatewayVars)
                  /\ ENABLED (GStep("leaveRoom", c, "", "")
                              /\ LeaveRoom(c) /\ UNCHANGED gatewayVars)
       /\ Handles("reviewResolved") =>
              \E i \in 1..Len(reviewCalls) :
                  /\ reviewCalls' = RemoveAt(reviewCalls, i)
                  /\ reviewCalls[i].room = last'.room
                  /\ \A d \in InRoom(socketRooms, last'.room) :
                        NewMsgs(d) = <<AIReviewMsg(GeneratedText(reviewCalls[i].prompt))>>]_vars

\* The room's code was changed to "" while the review of "x" was in flight,
\* and the review broadcast is the one of "x".
C20_Witness ==
    /\ last.kind = "reviewResolved"
    /\ last.arg = "x"
    /\ last.room \in DOMAIN roomData
    /\ roomData[last.room].code = ""
    /\ \E d \in Conns :
          /\ last.room \in socketRooms[d]
          /\ LastMsg(d) = AIReviewMsg("review of x")

\* C21 .. C28 ---------------------------------------------------------------
\* C23: a codeChange or languageChange naming a room the sender is not bound
\* to (the sender is unbound or bound to another room) still stores its value
\* in the named room's document and is delivered to that room's subscribers.
C23_EditsIgnoreBinding ==
    [][/\ (Handles("codeChange") /\ currentRoom[last'.conn] # last'.room) =>
              /\ last'.room \in DOMAIN roomData'
              /\ roomData'[last'.room].code = last'.arg
              /\ \A d \in InRoom(socketRooms, last'.room) \ {last'.conn} :
                    NewMsgs(d) = <<CodeUpdateMsg(last'.arg)>>
       /\ (Handles("languageChange") /\ currentRoom[last'.conn] # last'.room) =>
              /\ last'.room \in DOMAIN roomData'
              /\ roomData'[last'.room].language = last'.arg
              /\ \A d \in InRoom(socketRooms, last'.room) :
                    NewMsgs(d) = <<LanguageUpdateMsg(last'.arg)>>]_vars

\* An unbound connection has overwritten the code of a room that another
\* connection is in, and that connection got the codeUpdate.
C23_Witness ==
    /\ last.kind = "codeChange"
    /\ Unbound(last.conn)
    /\ socketRooms[last.conn] = {}
    /\ roomData[last.room].code = last.arg
    /\ \E d \in Conns \ {last.conn} :
          /\ currentRoom[d] = last.room
          /\ last.room \in socketRooms[d]
          /\ LastMsg(d) = CodeUpdateMsg(last.arg)

\* C27: a room enters the registry with the first join that names it and no
\* step removes a room; so the room a binding names is always in the registry,
\* with a membership set that may be empty.
C27_RoomsNeverRemoved ==
    [][/\ DOMAIN rooms \subseteq DOMAIN rooms'
       /\ Handles("join") => DOMAIN rooms' = DOMAIN rooms \cup {last'.room}
       /\ ~Handles("join") => DOMAIN rooms' = DOMAIN rooms
       /\ \A c \in Conns : currentRoom'[c] # Null => currentRoom'[c] \in DOMAIN rooms']_vars

\* The only member of a room has disconnected: the room is still registered,
\* with no member, and the closed connection's binding still names it.
C27_Witness ==
    /\ last.kind = "disconnect"
    /\ currentRoom[last.conn] = "r1"
    /\ "r1" \in DOMAIN rooms
    /\ rooms["r1"] = <<>>

\* No languageChange has been processed for room r.
NoLanguageSet(r) == r \notin DOMAIN roomData \/ roomData[r].language = Undefined

\* C21: once nothing is in flight, a client that is in a room for which no
\* languageChange has been processed shows the default language.
C21_DefaultLanguageShown ==
    AllQuiet =>
        \A c \in AppConns :
            (appJoined[c] /\ appRoomId[c] \in socketRooms[c] /\ NoLanguageSet(appRoomId[c]))
                => appLanguage[c] = DefaultLanguage

\* The client of connection c takes a document update off its socket.
AppliesUpdate(c) ==
    /\ toClient[c] # <<>>
    /\ toClient'[c] = Tail(toClient[c])
    /\ Head(toClient[c]).type \in {"codeUpdate", "languageUpdate"}

\* C22: a client that has executed leaveRoom, and so reset its code and
\* language, applies no codeUpdate and no languageUpdate until it has joined a
\* room again: its state after the reset takes nothing from the room it left.
C22_NoUpdateAfterReset ==
    [][\A c \in AppConns : AppliesUpdate(c) => appJoined[c]]_vars

\* C24: once every languageChange has been processed and every
\* languageUpdate has been applied, the local language of every client
\* subscribed to a room with a stored language equals the stored language.
C24_LanguagesConverge ==
    AllQuiet =>
        \A c \in AppConns, r \in RoomIds :
            (r \in socketRooms[c] /\ ~NoLanguageSet(r))
                => appLanguage[c] = roomData[r].language

\* Both clients are in r1, two languageChange events were the last of the
\* four events processed, and both clients show the stored language.
C24_Witness ==
    /\ AllQuiet
    /\ nActions = 4
    /\ last.kind = "languageChange"
    /\ currentRoom["c1"] = "r1" /\ currentRoom["c2"] = "r1"
    /\ roomData["r1"].language = "javascript"
    /\ appLanguage["c1"] = "javascript" /\ appLanguage["c2"] = "javascript"

\* For every live client, every emitted event has been processed or applied,
\* and no call to the generative model is pending.
ReviewQuiet ==
    /\ reviewCalls = <<>>
    /\ \A c \in AppConns : connected[c] => toServer[c] = <<>> /\ toClient[c] = <<>>

\* C25: once every event has been processed and every userJoined has been
\* applied, the user list of every live client subscribed to a room equals the
\* room's membership set.
C25_PresenceConverges ==
    ReviewQuiet =>
        \A c \in AppConns, r \in AppRoomIds :
            (connected[c] /\ r \in socketRooms[c]) => appUsers[c] = rooms[r]

\* Both clients joined r1, then c1's connection was lost; c2 lists itself only.
C25_Witness ==
    /\ ReviewQuiet
    /\ ~connected["c1"]
    /\ currentRoom["c1"] = "r1"
    /\ "r1" \in socketRooms["c2"]
    /\ rooms["r1"] = <<"B">>
    /\ appUsers["c2"] = <<"B">>

\* C26: once the review call has completed and everything emitted has been
\* delivered to the live clients, no live client still has its reviewing flag set.
C26_ReviewFlagCleared ==
    ReviewQuiet => \A c \in AppConns : connected[c] => ~appIsRev[c]

\* C28: the label in the prompt of a getAIReview is "C++" when the code
\* contains "#include"; otherwise "Python" when it contains "def " or "print(";
\* otherwise "JavaScript" when it contains "function" or "console."; otherwise
\* "Java" when it contains "public class" or "System.out"; otherwise "code".
\* Processing the request changes no stored document, no membership and no
\* executor call.
C28_LabelByPriority ==
    [][(Handles("getAIReview") /\ last'.arg # Undefined) =>
        LET code == last'.arg
            Has(pattern) == pattern \in Fragments(code)
            label == reviewCalls'[Len(reviewCalls')].prompt.lang
        IN  /\ Len(reviewCalls') = Len(reviewCalls) + 1
            /\ reviewCalls'[Len(reviewCalls')].prompt.code = code
            /\ Has("#include") => label = "C++"
            /\ (~Has("#include") /\ (Has("def ") \/ Has("print("))) => label = "Python"
            /\ (~Has("#include") /\ ~Has("def ") /\ ~Has("print(")
                    /\ (Has("function") \/ Has("console."))) => label = "JavaScript"
            /\ (~Has("#include") /\ ~Has("def ") /\ ~Has("print(")
                    /\ ~Has("function") /\ ~Has("console.")
                    /\ (Has("public class") \/ Has("System.out"))) => label = "Java"
            /\ Fragments(code) = {} => label = "code"
            /\ UNCHANGED <<rooms, roomData, execCalls>>]_vars

\* A text with "def " and "function" is pending with the label "Python",
\* and the room's stored language is still the one its member selected.
C28_Witness ==
    /\ reviewCalls # <<>>
    /\ reviewCalls[1].prompt.code = "def function(): pass"
    /\ reviewCalls[1].prompt.lang = "Python"
    /\ roomData["r1"].language = "javascript"
====
